---------------------------- MODULE Spec2Model ----------------------------
(***************************************************************************)
(* CO2: modular arithmetic (common.rs), the RSA engine (rsa.rs) and the    *)
(* elliptic-curve group interface with its signature protocols (ecc.rs).   *)
(* Every library function is a pure function of its inputs; the state is   *)
(* the RSA key pair last generated and the last call with its arguments    *)
(* and its result.  BigInt is modelled by the integers of TLC, so the      *)
(* curves are small instances of the three curve structs and the primes of *)
(* the RSA keys are small.                                                 *)
(***************************************************************************)
EXTENDS Integers, Sequences, FiniteSets, TLC

VARIABLES
    key,    \* the SecretRsaKey returned by the last gen_rsa_key, or None
    op,     \* name of the last function called
    arg,    \* its arguments
    ret,    \* its result
    frame,  \* the locals of the running gen_secure_prime, or None
    cipher  \* the ChaCha<N> or XChaCha<N> object new has returned, or None

vars == <<key, op, arg, ret, frame, cipher>>

(***************************************************************************)
(* Bounds of the model                                                     *)
(***************************************************************************)
\* mod_inv is called with x in -MaxInt..MaxInt
MaxInt == 12
\* mod_inv is called with n in 2..MaxModulus
MaxModulus == 9
\* the CSPRNG draws the prime candidates of gen_secure_prime in 0..MaxCandidate
MaxCandidate == 7
\* the digest of a message, as an integer, lies in 0..MaxHash
MaxHash == 7

(***************************************************************************)
(* Option<T> and the outcome of a call that may panic                      *)
(***************************************************************************)
None == [tag |-> "None"]
Some(v) == [tag |-> "Some", val |-> v]
Panic == [tag |-> "Panic"]

(***************************************************************************)
(* num::Integer on BigInt                                                  *)
(***************************************************************************)
\* floor division: rounds towards negative infinity, for either sign of b
div_floor(a, b) ==
    IF b > 0 THEN a \div b ELSE (-a) \div (-b)

\* the remainder of div_floor: it has the sign of the modulus
mod_floor(a, b) == a - b * div_floor(a, b)

Abs(a) == IF a < 0 THEN -a ELSE a

RECURSIVE gcd(_, _)
gcd(a, b) == IF b = 0 THEN Abs(a) ELSE gcd(b, mod_floor(a, b))

lcm(a, b) == IF a = 0 \/ b = 0 THEN 0 ELSE Abs(a * b) \div gcd(a, b)

\* BigInt::modpow for exponent >= 0 and modulus > 0: square and multiply
RECURSIVE modpow(_, _, _)
modpow(b, e, n) ==
    IF e = 0 THEN mod_floor(1, n)
    ELSE LET h == modpow(b, e \div 2, n)
             sq == mod_floor(h * h, n)
         IN  IF e % 2 = 1 THEN mod_floor(sq * mod_floor(b, n), n) ELSE sq

(***************************************************************************)
(* common.rs                                                               *)
(***************************************************************************)
\* the while loop of mod_inv, on (r, r_old, y, y_old)
RECURSIVE mod_inv_loop(_, _, _, _)
mod_inv_loop(r, r_old, y, y_old) ==
    IF r = 0 THEN y_old
    ELSE LET q == div_floor(r_old, r)
             r_new == mod_floor(r_old, r)
         IN  mod_inv_loop(r_new, r, y_old - q * y, y)

mod_inv(x, n) == mod_floor(mod_inv_loop(x, n, 1, 0), n)

mod_div(x, y, n) == mod_floor(mod_floor(x, n) * mod_inv(mod_floor(y, n), n), n)

(***************************************************************************)
(* Actions of common.rs                                                    *)
(***************************************************************************)
Init ==
    /\ key = None
    /\ frame = None
    /\ cipher = None
    /\ op = "init"
    /\ arg = <<>>
    /\ ret = <<>>

ModInv ==
    /\ op = "init"
    /\ \E x \in (-MaxInt)..MaxInt, n \in 2..MaxModulus :
        /\ op' = "mod_inv"
        /\ arg' = [x |-> x, n |-> n]
        /\ ret' = mod_inv(x, n)
        /\ UNCHANGED <<key, frame, cipher>>

ModDiv ==
    /\ op = "init"
    /\ \E x \in (-MaxInt)..MaxInt, y \in (-MaxInt)..MaxInt, n \in 2..MaxModulus :
        /\ op' = "mod_div"
        /\ arg' = [x |-> x, y |-> y, n |-> n]
        /\ ret' = mod_div(x, y, n)
        /\ UNCHANGED <<key, frame, cipher>>

NextArith == ModInv \/ ModDiv

SpecArith == Init /\ [][NextArith]_vars

(***************************************************************************)
(* C1                                                                      *)
(***************************************************************************)
\* C1 (as claimed): for every integer x, of either sign and reduced or not,
\* and every n > 1 with gcd(x, n) = 1, x * mod_inv(x, n) is 1 modulo n.
C1_ModInvAllIntegers ==
    (op = "mod_inv" /\ gcd(arg.x, arg.n) = 1)
        => mod_floor(arg.x * ret, arg.n) = 1

(***************************************************************************)
(* rsa.rs: primality                                                       *)
(***************************************************************************)
FIRST_PRIMES ==
    <<2, 3, 5, 7, 11, 13, 17, 19, 23, 29, 31, 37, 41, 43, 47, 53, 59, 61, 67,
      71, 73, 79, 83, 89, 97, 101, 103, 107, 109, 113, 127, 131, 137, 139,
      149, 151, 157, 163, 167, 173, 179, 181, 191, 193, 197, 199, 211, 223,
      227, 229, 233, 239, 241, 251, 257, 263, 269, 271, 277, 281>>

\* number of Miller-Rabin rounds is_prime asks for
MR_ROUNDS == 40

\* the for loop of quick_prime_check, from index i of FIRST_PRIMES
RECURSIVE quick_prime_loop(_, _)
quick_prime_loop(n, i) ==
    IF i > Len(FIRST_PRIMES) THEN TRUE
    ELSE IF n = FIRST_PRIMES[i] THEN TRUE
    ELSE IF mod_floor(n, FIRST_PRIMES[i]) = 0 THEN FALSE
    ELSE quick_prime_loop(n, i + 1)

quick_prime_check(n) == quick_prime_loop(n, 1)

\* miller_rabin, lines 30-35: n >> 1 is halved while even, r doubles each time
RECURSIVE mr_split(_, _)
mr_split(d, r) ==
    IF d % 2 = 0 THEN mr_split(d \div 2, r * 2) ELSE [d |-> d, r |-> r]

\* miller_rabin, lines 42-48: the inner while loop on x with the counter r,
\* which the rounds share; pass = the round went on to the next one
RECURSIVE mr_inner(_, _, _)
mr_inner(n, x, r) ==
    IF r = 0 THEN [pass |-> FALSE, r |-> 0]
    ELSE LET x2 == (x * x) % n
         IN  IF x2 = n - 1 THEN [pass |-> TRUE, r |-> r]
             ELSE mr_inner(n, x2, r - 1)

\* one round of miller_rabin with the base a drawn by the generator
mr_round(n, d, r, a) ==
    LET x == modpow(a, d, n)
    IN  IF x = 1 \/ x = n - 1 THEN [pass |-> TRUE, r |-> r]
        ELSE mr_inner(n, x, r)

\* the answers the remaining k rounds can give when the counter r is one of
\* rs, over every base gen_bigint_range(2, n - 1) can draw
RECURSIVE mr_rounds(_, _, _, _)
mr_rounds(n, d, rs, k) ==
    IF k = 0 THEN {TRUE}
    ELSE LET outs == {mr_round(n, d, r, a) : r \in rs, a \in 2..(n - 2)}
             next_rs == {o.r : o \in {o2 \in outs : o2.pass}}
         IN  (IF \E o \in outs : ~o.pass THEN {FALSE} ELSE {})
                 \cup (IF next_rs = {} THEN {} ELSE mr_rounds(n, d, next_rs, k - 1))

\* the answers miller_rabin(n, k, rng) can give for n >= 2, over the bases
miller_rabin(n, k) ==
    IF n = 2 \/ n = 3 THEN {TRUE}
    ELSE IF n % 2 = 0 THEN {FALSE}
    ELSE LET s == mr_split(n \div 2, 1)
         IN  mr_rounds(n, s.d, {s.r}, k)

\* the answers is_prime(n, rng) can give; for n = 1 the halving loop of
\* miller_rabin never ends (d = 0 stays even) and there is no answer
is_prime(n) ==
    IF ~quick_prime_check(n) THEN {FALSE}
    ELSE IF n = 1 THEN {}
    ELSE miller_rabin(n, MR_ROUNDS)

\* the values gen_secure_prime can return when the search stands at n
RECURSIVE gen_secure_prime(_)
gen_secure_prime(n) ==
    LET answers == is_prime(n)
    IN  (IF TRUE \in answers THEN {n} ELSE {})
            \cup (IF FALSE \in answers THEN gen_secure_prime(n + 1) ELSE {})

(***************************************************************************)
(* rsa.rs: keys                                                            *)
(***************************************************************************)
PublicRsaKey(x, n) == <<x, n>>
SecretRsaKey(x, pk) == <<x, pk>>

\* the keys gen_rsa_key can return when the CSPRNG draws the candidates c1, c2
gen_rsa_key(c1, c2) ==
    UNION { UNION {
        LET n == p * q
            lam == lcm(p - 1, q - 1)
        IN  { SecretRsaKey(e, PublicRsaKey(mod_inv(e, lam), n)) :
                  e \in {out \in 1..(lam - 1) : gcd(lam, out) = 1} }
        : q \in gen_secure_prime(c2) } : p \in gen_secure_prime(c1) }

\* a plausible slip: the upper bound compared with n instead of n - 1
enc_upto_n(pk, m) ==
    IF 1 < m /\ m < pk[2] THEN Some(modpow(m, pk[1], pk[2])) ELSE None

\* PublicRsaKey::enc
enc(pk, m) ==
    IF 1 < m /\ m < pk[2] - 1 THEN Some(modpow(m, pk[1], pk[2])) ELSE None

\* SecretRsaKey::dec
dec(sk, c) ==
    IF 1 < c /\ c < sk[2][2] - 1 THEN Some(modpow(c, sk[1], sk[2][2])) ELSE None

\* SecretRsaKey::pub_key
pub_key(sk) == sk[2]

\* SecretRsaKey::sign, hm the integer hash_bigint(m, h) gives for the message
sign(sk, hm) == dec(sk, hm)

\* PublicRsaKey::verify: the ? operator hands the None of enc to the caller
verify(pk, hm, ds) ==
    LET c == enc(pk, ds)
    IN  IF c = None THEN None ELSE Some(c.val = hm)

(***************************************************************************)
(* Actions of rsa.rs.  A result depends on the key and the arguments       *)
(* alone, never on the call before, so the calls are explored from the     *)
(* state that follows gen_rsa_key, and dec and verify also from the state  *)
(* that holds the ciphertext or the signature they are given.              *)
(***************************************************************************)
\* the integers handed to enc, dec and verify: around and inside 0..n
RsaInputs == (-1)..(key[2][2] + 1)

\* the digests hash_bigint can return
HashVals == 0..MaxHash

GenRsaKey ==
    /\ op = "init"
    /\ \E c1 \in 0..MaxCandidate, c2 \in 0..MaxCandidate :
        \E sk \in gen_rsa_key(c1, c2) :
            /\ key' = sk
            /\ op' = "gen_rsa_key"
            /\ arg' = <<>>
            /\ ret' = sk
            /\ UNCHANGED <<frame, cipher>>

RsaEnc ==
    /\ op = "gen_rsa_key"
    /\ \E m \in RsaInputs :
        /\ op' = "enc"
        /\ arg' = [m |-> m]
        /\ ret' = enc(pub_key(key), m)
        /\ UNCHANGED <<key, frame, cipher>>

\* dec of any integer, or of the ciphertext enc has just returned for arg.m
RsaDec ==
    /\ \/ /\ op = "gen_rsa_key"
          /\ \E c \in RsaInputs :
              /\ arg' = [c |-> c, plain |-> None]
              /\ ret' = dec(key, c)
       \/ /\ op = "enc"
          /\ ret # None
          /\ arg' = [c |-> ret.val, plain |-> Some(arg.m)]
          /\ ret' = dec(key, ret.val)
    /\ op' = "dec"
    /\ UNCHANGED <<key, frame, cipher>>

RsaSign ==
    /\ op = "gen_rsa_key"
    /\ \E hm \in HashVals :
        /\ op' = "sign"
        /\ arg' = [hm |-> hm]
        /\ ret' = sign(key, hm)
        /\ UNCHANGED <<key, frame, cipher>>

\* verify of any integer, or of the signature sign has just returned for the
\* message whose digest is arg.hm
RsaVerify ==
    /\ \/ /\ op = "gen_rsa_key"
          /\ \E hm \in HashVals, ds \in RsaInputs :
              /\ arg' = [hm |-> hm, ds |-> ds, signed |-> FALSE]
              /\ ret' = verify(pub_key(key), hm, ds)
       \/ /\ op = "sign"
          /\ ret # None
          /\ arg' = [hm |-> arg.hm, ds |-> ret.val, signed |-> TRUE]
          /\ ret' = verify(pub_key(key), arg.hm, ret.val)
    /\ op' = "verify"
    /\ UNCHANGED <<key, frame, cipher>>

\* is_prime is called with n in 2..MaxPrimeArg
MaxPrimeArg == 20

\* is_prime(n, rng) with the answer the bases drawn by rng lead to
IsPrime ==
    /\ op = "init"
    /\ \E n \in 2..MaxPrimeArg : \E b \in is_prime(n) :
        /\ op' = "is_prime"
        /\ arg' = [n |-> n]
        /\ ret' = b
        /\ UNCHANGED <<key, frame, cipher>>

NextRsa == GenRsaKey \/ RsaEnc \/ RsaDec \/ RsaSign \/ RsaVerify \/ IsPrime

SpecRsa == Init /\ [][NextRsa]_vars

(***************************************************************************)
(* C2, C3, C4                                                              *)
(***************************************************************************)
\* C2 (as claimed): with any key pair gen_rsa_key returns, decrypting the
\* ciphertext of a message m, 1 < m < n - 1, succeeds and gives m back.
C2_RsaRoundTrip ==
    (op = "dec" /\ arg.plain # None) => ret = Some(arg.plain.val)

\* C3 (as claimed): with any key pair gen_rsa_key returns, the signature sign
\* produces for a message is accepted by verify: verify yields true.
C3_RsaSignVerify ==
    (op = "verify" /\ arg.signed) => ret = Some(TRUE)

\* b^e mod n by e successive multiplications
RECURSIVE PowModRef(_, _, _)
PowModRef(b, e, n) == IF e = 0 THEN 1 % n ELSE (b * PowModRef(b, e - 1, n)) % n

\* C4: enc and dec return None exactly when the input is not strictly between
\* 1 and n - 1, and otherwise Some(input^exponent mod n) with the exponent
\* and the modulus of the key they are called on.
C4_RsaDomain ==
    /\ op = "enc" =>
        IF 1 < arg.m /\ arg.m < key[2][2] - 1
        THEN ret = Some(PowModRef(arg.m, key[2][1], key[2][2]))
        ELSE ret = None
    /\ op = "dec" =>
        IF 1 < arg.c /\ arg.c < key[2][2] - 1
        THEN ret = Some(PowModRef(arg.c, key[1], key[2][2]))
        ELSE ret = None

\* enc refuses n - 1 and dec answers an input in range
C4_Witness ==
    \/ op = "enc" /\ arg.m = key[2][2] - 1 /\ ret = None /\ key[2][2] > 4
    \/ op = "dec" /\ arg.c = 2 /\ ret # None /\ ret.val # 2

(***************************************************************************)
(* ecc.rs: points and curves.  Option<Pos> is None or Some(Pos(x, y)); the *)
(* derived PartialEq compares the coordinates as integers.                 *)
(***************************************************************************)
Pos(x, y) == [x |-> x, y |-> y]

\* the toy curve y^2 = x^3 + 2x + 3 (mod 97) with G = (3, 6) of order 5
ToyWeierstrass ==
    [shape |-> "EllipticCurve", a |-> 2, b |-> 3, p |-> 97,
     g |-> Some(Pos(3, 6)), n |-> 5]

\* y^2 = x^3 + 8x^2 + x (mod 19) with G = (4, 5) of order 7; b = 1 as Curve25519
ToyMontgomery ==
    [shape |-> "MontgomeryCurve", a |-> 8, b |-> 1, p |-> 19,
     g |-> Some(Pos(4, 5)), n |-> 7]

\* -x^2 + y^2 = 1 + 2x^2y^2 (mod 29) with B = (2, 22) of order 7; as on
\* Ed25519, a = -1 is a square and d is not, so the addition law is complete
ToyEdwards ==
    [shape |-> "TwistedEdwardsCurve", a |-> -1, d |-> 2, p |-> 29,
     b |-> Pos(2, 22), l |-> 7]

Curves == {ToyWeierstrass, ToyMontgomery, ToyEdwards}

identity(c) ==
    IF c.shape = "TwistedEdwardsCurve" THEN Pos(0, 1) ELSE None

generator(c) ==
    IF c.shape = "TwistedEdwardsCurve" THEN c.b ELSE c.g

order(c) ==
    IF c.shape = "TwistedEdwardsCurve" THEN c.l ELSE c.n

\* the tail of EllipticCurve::add and MontgomeryCurve::add once p, q or both
\* are None
add_none(c, P, Q) == IF P = identity(c) THEN Q ELSE P

\* EllipticCurve::add
add_weierstrass(c, P, Q) ==
    IF P # None /\ Q # None
    THEN LET x1 == P.val.x
             y1 == P.val.y
             x2 == Q.val.x
             y2 == Q.val.y
         IN  IF x1 = x2 /\ y1 = -y2 THEN None
             ELSE LET s == IF x1 = x2 /\ y1 = y2
                           THEN mod_div(3 * x1 * x1 + c.a, 2 * y1, c.p)
                           ELSE mod_div(y1 - y2, x1 - x2, c.p)
                      x_new == mod_floor(s * s - x1 - x2, c.p)
                      y_new == mod_floor(s * (x1 - x_new) - y1, c.p)
                  IN  Some(Pos(x_new, y_new))
    ELSE add_none(c, P, Q)

\* MontgomeryCurve::add
add_montgomery(c, P, Q) ==
    IF P # None /\ Q # None
    THEN LET x1 == P.val.x
             y1 == P.val.y
             x2 == Q.val.x
             y2 == Q.val.y
         IN  IF x1 = x2 /\ y1 = -y2 THEN None
             ELSE LET s == IF x1 = x2 /\ y1 = y2
                           THEN mod_div(3 * x1 * x1 + 2 * c.a * x1 + 1,
                                        2 * c.b * y1, c.p)
                           ELSE mod_div(y1 - y2, x1 - x2, c.p)
                      x_new == mod_floor(c.b * s * s - c.a - x1 - x2, c.p)
                      y_new == mod_floor(s * (x1 - x_new) - y1, c.p)
                  IN  Some(Pos(x_new, y_new))
    ELSE add_none(c, P, Q)

\* TwistedEdwardsCurve::double
double_edwards(c, P) ==
    LET x == P.x
        y == P.y
    IN  Pos(mod_div(2 * x * y, c.a * x * x + y * y, c.p),
            mod_div(y * y - c.a * x * x, 2 - c.a * x * x - y * y, c.p))

\* TwistedEdwardsCurve::add
add_edwards(c, P, Q) ==
    IF P = Q THEN double_edwards(c, P)
    ELSE LET x1 == P.x
             y1 == P.y
             x2 == Q.x
             y2 == Q.y
             f == mod_floor(c.d * x1 * x2, c.p)
         IN  Pos(mod_div(x1 * y2 + x2 * y1, 1 + f * y1 * y2, c.p),
                 mod_div(y1 * y2 - c.a * x1 * x2, 1 - f * y1 * y2, c.p))

\* a plausible slip: the point is returned as it is
neg_forgotten(c, P) == P

\* AddGroup::neg of the three curves
neg(c, P) ==
    IF c.shape = "TwistedEdwardsCurve" THEN Pos(-P.x, P.y)
    ELSE IF P = None THEN None
    ELSE Some(Pos(P.val.x, -P.val.y))

\* AddGroup::add of the three curves
add(c, P, Q) ==
    IF c.shape = "EllipticCurve" THEN add_weierstrass(c, P, Q)
    ELSE IF c.shape = "MontgomeryCurve" THEN add_montgomery(c, P, Q)
    ELSE add_edwards(c, P, Q)

\* AddGroup::sub (default)
sub(c, P, Q) == add(c, P, neg(c, Q))

\* AddGroup::double: the default, overridden by TwistedEdwardsCurve
double(c, P) ==
    IF c.shape = "TwistedEdwardsCurve" THEN double_edwards(c, P)
    ELSE add(c, P, P)

\* the while loop of AddGroup::mul on (out, p, k)
RECURSIVE mul_loop(_, _, _, _)
mul_loop(c, out, P, k) ==
    IF ~(0 < k) THEN out
    ELSE IF k = 1 THEN mul_loop(c, add(c, out, P), P, k \div 2)
    ELSE mul_loop(c, IF k % 2 = 1 THEN add(c, out, P) ELSE out,
                  double(c, P), k \div 2)

\* AddGroup::mul (default)
mul(c, k, P) == mul_loop(c, identity(c), P, k)

\* AddGroup::validate of the three curves
validate(c, P) ==
    IF c.shape = "EllipticCurve"
    THEN P = None \/
         mod_floor(P.val.y * P.val.y, c.p)
             = mod_floor(mod_floor(P.val.x * P.val.x * P.val.x, c.p)
                         + mod_floor(c.a * P.val.x, c.p) + c.b, c.p)
    ELSE IF c.shape = "MontgomeryCurve"
    THEN P = None \/
         mod_floor(c.b * P.val.y * P.val.y, c.p)
             = mod_floor(mod_floor(P.val.x * P.val.x * P.val.x, c.p)
                         + mod_floor(c.a * P.val.x * P.val.x, c.p) + P.val.x, c.p)
    ELSE mod_floor(c.a * P.x * P.x + P.y * P.y, c.p)
             = mod_floor(1 + mod_floor(c.d * P.x * P.x, c.p) * P.y * P.y, c.p)

\* AddGroup::to_bigint: Option::unwrap panics on None
to_bigint_panics(c, P) == c.shape # "TwistedEdwardsCurve" /\ P = None

to_bigint(c, P) ==
    IF c.shape = "TwistedEdwardsCurve" THEN P.y ELSE P.val.x

(***************************************************************************)
(* Actions of the group interface                                          *)
(***************************************************************************)
\* coordinates reach CoordSlack below 0 and CoordSlack above p - 1
CoordSlack == 2
\* mul is called with k in 0..MaxScalar
MaxScalar == 8

Coords(c) == (-CoordSlack)..(c.p - 1 + CoordSlack)

\* every value of the point type with coordinates in Coords(c)
AllPoints(c) ==
    IF c.shape = "TwistedEdwardsCurve"
    THEN {Pos(x, y) : x \in Coords(c), y \in Coords(c)}
    ELSE {None} \cup {Some(Pos(x, y)) : x \in Coords(c), y \in Coords(c)}

\* the points handed to the group operations: those validate accepts
PointInputs(c) == {P \in AllPoints(c) : validate(c, P)}

GroupNeg ==
    /\ op = "init"
    /\ \E c \in Curves : \E P \in PointInputs(c) :
        /\ op' = "neg"
        /\ arg' = [curve |-> c, p |-> P]
        /\ ret' = neg(c, P)
        /\ UNCHANGED <<key, frame, cipher>>

GroupDouble ==
    /\ op = "init"
    /\ \E c \in Curves : \E P \in PointInputs(c) :
        /\ op' = "double"
        /\ arg' = [curve |-> c, p |-> P]
        /\ ret' = double(c, P)
        /\ UNCHANGED <<key, frame, cipher>>

GroupAdd ==
    /\ op = "init"
    /\ \E c \in Curves : \E P \in PointInputs(c), Q \in PointInputs(c) :
        /\ op' = "add"
        /\ arg' = [curve |-> c, p |-> P, q |-> Q]
        /\ ret' = add(c, P, Q)
        /\ UNCHANGED <<key, frame, cipher>>

GroupSub ==
    /\ op = "init"
    /\ \E c \in Curves : \E P \in PointInputs(c), Q \in PointInputs(c) :
        /\ op' = "sub"
        /\ arg' = [curve |-> c, p |-> P, q |-> Q]
        /\ ret' = sub(c, P, Q)
        /\ UNCHANGED <<key, frame, cipher>>

GroupMul ==
    /\ op = "init"
    /\ \E c \in Curves : \E k \in 0..MaxScalar, P \in PointInputs(c) :
        /\ op' = "mul"
        /\ arg' = [curve |-> c, k |-> k, p |-> P]
        /\ ret' = mul(c, k, P)
        /\ UNCHANGED <<key, frame, cipher>>

NextGroup == GroupNeg \/ GroupDouble \/ GroupAdd \/ GroupSub \/ GroupMul

SpecGroup == Init /\ [][NextGroup]_vars

(***************************************************************************)
(* C9, C10                                                                 *)
(***************************************************************************)
\* C9: on each curve shape, for every point P that validate accepts, the
\* identity included, add(P, neg(P)) is the identity of the curve: None on
\* the Weierstrass and Montgomery curves, (0, 1) on the twisted Edwards one.
C9_AddNegIsIdentity ==
    (op = "sub" /\ arg.p = arg.q) => ret = identity(arg.curve)

\* P - P has been computed for P = (3, 6) on the toy curve
C9_Witness ==
    /\ op = "sub"
    /\ arg.curve = ToyWeierstrass
    /\ arg.p = Some(Pos(3, 6))
    /\ arg.q = Some(Pos(3, 6))
    /\ ret = None

\* the multiples 1*G .. (n-1)*G of the generator, as mul computes them
SubgroupPoints(c) == {mul(c, k, generator(c)) : k \in 1..(order(c) - 1)}

\* C10 (as claimed): mul(n, P) is the identity of the curve for the generator
\* G of order n and for every point P of the subgroup G generates.
C10_OrderTimesPoint ==
    (op = "mul" /\ arg.k = order(arg.curve)
        /\ arg.p \in SubgroupPoints(arg.curve))
        => ret = identity(arg.curve)

(***************************************************************************)
(* ecc.rs: ECDSA and EdDSA.  hm is the integer hash_bigint(m, h) gives for *)
(* the message, k the nonce drawn from the CSPRNG.  A call returns a value *)
(* or panics.                                                              *)
(***************************************************************************)
Returns(v) == [tag |-> "Returns", val |-> v]

ecdsa_sign(hm, sk, c, k) ==
    LET g == generator(c)
        n == order(c)
        z == mod_floor(hm, n)
        kg == mul(c, k, g)
    IN  IF to_bigint_panics(c, kg) THEN Panic
        ELSE LET r == mod_floor(to_bigint(c, kg), n)
                 s == mod_div(z + r * sk, k, n)
             IN  Returns(<<r, s>>)

\* the test of the public key, ecdsa_verify line 226 and eddsa_verify line 274
pk_check(c, pk) ==
    /\ validate(c, pk)
    /\ pk # identity(c)
    /\ mul(c, order(c), pk) = identity(c)

ecdsa_verify(hm, pk, ds, c) ==
    LET g == generator(c)
        n == order(c)
    IN  IF pk_check(c, pk)
        THEN LET r == ds[1]
                 s == ds[2]
                 z == mod_floor(hm, n)
                 inv_s == mod_inv(s, n)
                 u1 == mod_floor(z * inv_s, n)
                 u2 == mod_floor(r * inv_s, n)
                 sum == add(c, mul(c, u1, g), mul(c, u2, pk))
             IN  IF to_bigint_panics(c, sum) THEN Panic
                 ELSE Returns(r = mod_floor(to_bigint(c, sum), n))
        ELSE Returns(FALSE)

eddsa_sign(hm, sk, c, k) ==
    LET g == generator(c)
        n == order(c)
        r == mul(c, k, g)
        z == mod_floor(hm, n)
        s == mod_floor(k + z * sk, n)
    IN  Returns(<<r, s>>)

eddsa_verify(hm, pk, ds, c) ==
    LET g == generator(c)
    IN  IF pk_check(c, pk)
        THEN LET r == ds[1]
                 s == ds[2]
                 z == mod_floor(hm, order(c))
             IN  Returns(mul(c, s, g) = add(c, r, mul(c, z, pk)))
        ELSE Returns(FALSE)

(***************************************************************************)
(* Actions of the signature protocols.  As for RSA, a verification is      *)
(* explored on arbitrary arguments and on the signature just produced.     *)
(***************************************************************************)
\* public keys handed to the verifiers have coordinates in -1..MaxKeyCoord,
\* or are multiples of the generator or their negations
MaxKeyCoord == 1

\* secret keys
SkInputs(c) == 1..(order(c) - 1)

\* the integers of a signature handed to the verifiers
SigInts(c) == (-1)..order(c)

\* the points with coordinates in -1..MaxKeyCoord, on the curve or not
SmallPoints(c) ==
    IF c.shape = "TwistedEdwardsCurve"
    THEN {Pos(x, y) : x \in (-1)..MaxKeyCoord, y \in (-1)..MaxKeyCoord}
    ELSE {Some(Pos(x, y)) : x \in (-1)..MaxKeyCoord, y \in (-1)..MaxKeyCoord}

\* the public keys handed to the verifiers
KeyInputs(c) ==
    SubgroupPoints(c) \cup {neg(c, P) : P \in SubgroupPoints(c)}
        \cup {identity(c)} \cup SmallPoints(c)

\* the points R handed to eddsa_verify
NonceInputs(c) == SubgroupPoints(c) \cup {identity(c)}

EcdsaSign ==
    /\ op = "init"
    /\ \E c \in Curves :
        \E sk \in SkInputs(c), hm \in HashVals, k \in 1..(order(c) - 1) :
            /\ op' = "ecdsa_sign"
            /\ arg' = [curve |-> c, sk |-> sk, hm |-> hm, k |-> k]
            /\ ret' = ecdsa_sign(hm, sk, c, k)
            /\ UNCHANGED <<key, frame, cipher>>

EcdsaVerify ==
    /\ \/ /\ op = "init"
          /\ \E c \in Curves :
              \E pk \in KeyInputs(c), hm \in HashVals,
                 r \in SigInts(c), s \in SigInts(c) :
                  /\ arg' = [curve |-> c, pk |-> pk, hm |-> hm,
                             ds |-> <<r, s>>, signed |-> FALSE]
                  /\ ret' = ecdsa_verify(hm, pk, <<r, s>>, c)
       \/ /\ op = "ecdsa_sign"
          /\ ret # Panic
          /\ LET c == arg.curve
                 pk == mul(c, arg.sk, generator(c))
             IN  /\ arg' = [curve |-> c, pk |-> pk, hm |-> arg.hm,
                            ds |-> ret.val, signed |-> TRUE]
                 /\ ret' = ecdsa_verify(arg.hm, pk, ret.val, c)
    /\ op' = "ecdsa_verify"
    /\ UNCHANGED <<key, frame, cipher>>

EddsaSign ==
    /\ op = "init"
    /\ \E c \in Curves :
        \E sk \in SkInputs(c), hm \in HashVals, k \in 0..(order(c) - 1) :
            /\ op' = "eddsa_sign"
            /\ arg' = [curve |-> c, sk |-> sk, hm |-> hm, k |-> k]
            /\ ret' = eddsa_sign(hm, sk, c, k)
            /\ UNCHANGED <<key, frame, cipher>>

EddsaVerify ==
    /\ \/ /\ op = "init"
          /\ \E c \in Curves :
              \E pk \in KeyInputs(c), hm \in HashVals,
                 r \in NonceInputs(c), s \in SigInts(c) :
                  /\ arg' = [curve |-> c, pk |-> pk, hm |-> hm,
                             ds |-> <<r, s>>, signed |-> FALSE]
                  /\ ret' = eddsa_verify(hm, pk, <<r, s>>, c)
       \/ /\ op = "eddsa_sign"
          /\ LET c == arg.curve
                 pk == mul(c, arg.sk, generator(c))
             IN  /\ arg' = [curve |-> c, pk |-> pk, hm |-> arg.hm,
                            ds |-> ret.val, signed |-> TRUE]
                 /\ ret' = eddsa_verify(arg.hm, pk, ret.val, c)
    /\ op' = "eddsa_verify"
    /\ UNCHANGED <<key, frame, cipher>>

NextSig == EcdsaSign \/ EcdsaVerify \/ EddsaSign \/ EddsaVerify

SpecSig == Init /\ [][NextSig]_vars

(***************************************************************************)
(* C5, C6, C7                                                              *)
(***************************************************************************)
\* C5 (as claimed): on every curve shape, for sk in [1, n), pk = sk*G, any
\* message and any nonce k in [1, n), ecdsa_verify accepts the signature
\* ecdsa_sign returns.
C5_EcdsaRoundTrip ==
    (op = "ecdsa_verify" /\ arg.signed) => ret = Returns(TRUE)

\* C6 (as claimed): on every curve shape, for sk in [1, n), pk = sk*G, any
\* message and any nonce k in [0, n), eddsa_verify accepts the signature
\* eddsa_sign returns.
C6_EddsaRoundTrip ==
    (op = "eddsa_verify" /\ arg.signed) => ret = Returns(TRUE)

\* C7 (as claimed): both verifiers return false when the public point fails
\* validate, is the identity, or its multiple by the group order is not the
\* identity; and the test of the public point rejects for no other reason:
\* a valid point of the generator's subgroup other than the identity passes.
C7_PublicKeyTest ==
    op \in {"ecdsa_verify", "eddsa_verify"} =>
        LET c == arg.curve
        IN  /\ ( \/ ~validate(c, arg.pk)
                 \/ arg.pk = identity(c)
                 \/ mul(c, order(c), arg.pk) # identity(c) )
                    => ret = Returns(FALSE)
            /\ arg.pk \in SubgroupPoints(c) => pk_check(c, arg.pk)

(***************************************************************************)
(* C8                                                                      *)
(***************************************************************************)
\* C8 (as claimed): every verification, of RSA, ECDSA and EdDSA, on any
\* message, key and signature, ends with a boolean: it neither panics nor
\* returns an error value.
C8_VerifyIsBoolean ==
    /\ op = "verify" => ret \in {Some(TRUE), Some(FALSE)}
    /\ op \in {"ecdsa_verify", "eddsa_verify"}
        => ret \in {Returns(TRUE), Returns(FALSE)}

(***************************************************************************)
(* C11, C13, C14, C16                                                      *)
(***************************************************************************)
\* C11 (as claimed): on each curve shape, add, double, neg, sub and mul of
\* points that validate accepts (and any k >= 0) return a point that validate
\* accepts.
C11_ClosedUnderOperations ==
    op \in {"add", "double", "neg", "sub", "mul"} => validate(arg.curve, ret)

\* C13 (as claimed): on the Weierstrass and Montgomery curves add(P, Q) is
\* the identity for affine P, Q with x1 = x2 and y1 = -y2 modulo p, whatever
\* integers represent the coordinates.
C13_AddOfInverses ==
    (op = "add" /\ arg.curve.shape # "TwistedEdwardsCurve"
        /\ arg.p # None /\ arg.q # None
        /\ arg.p.val.x = arg.q.val.x
        /\ mod_floor(arg.p.val.y + arg.q.val.y, arg.curve.p) = 0)
        => ret = identity(arg.curve)

\* the double-and-add of the specification, least significant bit first: the
\* running point is doubled after every bit, the last one included
RECURSIVE ScalarMultiplyRef(_, _, _, _)
ScalarMultiplyRef(c, acc, run, k) ==
    IF k = 0 THEN acc
    ELSE ScalarMultiplyRef(c, IF k % 2 = 1 THEN add(c, acc, run) ELSE acc,
                           double(c, run), k \div 2)

\* P + ... + P, k times, from the identity
RECURSIVE KFoldSum(_, _, _)
KFoldSum(c, k, P) ==
    IF k = 0 THEN identity(c) ELSE add(c, KFoldSum(c, k - 1, P), P)

\* the same group element: the coordinates agree modulo p
SamePoint(c, P, Q) ==
    IF c.shape = "TwistedEdwardsCurve"
    THEN mod_floor(P.x - Q.x, c.p) = 0 /\ mod_floor(P.y - Q.y, c.p) = 0
    ELSE IF P = None \/ Q = None THEN P = Q
    ELSE /\ mod_floor(P.val.x - Q.val.x, c.p) = 0
         /\ mod_floor(P.val.y - Q.val.y, c.p) = 0

\* C14 (as claimed): mul(k, P) is the point the double-and-add of the
\* specification returns, which is the k-fold sum of P; mul(0, P) is the
\* identity and mul(1, P) is P.
C14_MulIsKFoldSum ==
    op = "mul" =>
        /\ ret = ScalarMultiplyRef(arg.curve, identity(arg.curve), arg.p, arg.k)
        /\ SamePoint(arg.curve, ret, KFoldSum(arg.curve, arg.k, arg.p))
        /\ arg.k = 0 => ret = identity(arg.curve)
        /\ arg.k = 1 => SamePoint(arg.curve, ret, arg.p)

\* C16 (as claimed): on the twisted Edwards curve neg(x, y) is
\* ((-x) mod p, y), with the x-coordinate reduced into [0, p).
C16_EdwardsNegReduced ==
    (op = "neg" /\ arg.curve.shape = "TwistedEdwardsCurve")
        => ret = Pos(mod_floor(-arg.p.x, arg.curve.p), arg.p.y)

(***************************************************************************)
(* C12, C18                                                                *)
(***************************************************************************)
\* n has no divisor in 2..n-1
IsPrimeRef(n) == n >= 2 /\ \A m \in 2..(n - 1) : n % m # 0

\* C12 (as claimed): is_prime answers true for every prime, whatever bases
\* the generator supplies to the 40 rounds of Miller-Rabin.
C12_PrimesAccepted ==
    (op = "is_prime" /\ IsPrimeRef(arg.n)) => ret = TRUE

\* C18 (as claimed): ecdsa_verify returns false for every signature (r, s)
\* with s = 0 modulo the group order, for every message and every public key
\* sk*G, on every curve shape.
C18_ZeroSRejected ==
    (op = "ecdsa_verify" /\ arg.pk \in SubgroupPoints(arg.curve)
        /\ mod_floor(arg.ds[2], order(arg.curve)) = 0)
        => ret = Returns(FALSE)

(***************************************************************************)
(* gen_secure_prime step by step: the search loop, quick_prime_check, and  *)
(* the loops of miller_rabin, one action per loop iteration.               *)
(***************************************************************************)
\* the doubling of r in miller_rabin is followed up to MaxShiftedR
MaxShiftedR == 64

Frame(pc, n, d, r, i, x) == [pc |-> pc, n |-> n, d |-> d, r |-> r, i |-> i, x |-> x]

\* gen_secure_prime is called and the CSPRNG draws the candidate c
GenSecurePrime ==
    /\ op = "init"
    /\ \E c \in 0..MaxCandidate :
        /\ frame' = Frame("is_prime", c, 0, 0, 0, 0)
        /\ op' = "gen_secure_prime"
        /\ arg' = [n |-> c]
        /\ ret' = None
    /\ UNCHANGED <<key, cipher>>

\* while !is_prime(&n, rng): quick_prime_check, and n += 1 when it fails
QuickPrimeCheck ==
    /\ op = "gen_secure_prime" /\ frame.pc = "is_prime"
    /\ \/ /\ quick_prime_check(frame.n)
          /\ frame' = [frame EXCEPT !.pc = "miller_rabin"]
       \/ /\ ~quick_prime_check(frame.n)
          /\ frame' = Frame("is_prime", frame.n + 1, 0, 0, 0, 0)
    /\ UNCHANGED <<key, op, arg, ret, cipher>>

\* miller_rabin up to the initialisation of d and r
MillerRabinEnter ==
    /\ op = "gen_secure_prime" /\ frame.pc = "miller_rabin"
    /\ IF frame.n = 2 \/ frame.n = 3
       THEN /\ frame' = Frame("return", frame.n, 0, 0, 0, 0)
            /\ ret' = Returns(frame.n)
       ELSE /\ frame' = IF frame.n % 2 = 0
                        THEN Frame("is_prime", frame.n + 1, 0, 0, 0, 0)
                        ELSE Frame("split", frame.n, frame.n \div 2, 1, 0, 0)
            /\ UNCHANGED ret
    /\ UNCHANGED <<key, op, arg, cipher>>

\* one test of while d.is_even() { d >>= 1; r <<= 1; }
MillerRabinSplit ==
    /\ op = "gen_secure_prime" /\ frame.pc = "split"
    /\ IF frame.d % 2 = 0
       THEN /\ 2 * frame.r <= MaxShiftedR
            /\ frame' = [frame EXCEPT !.d = frame.d \div 2, !.r = 2 * frame.r]
       ELSE frame' = [frame EXCEPT !.pc = "round"]
    /\ UNCHANGED <<key, op, arg, ret, cipher>>

\* one pass of 'outer_loop up to the inner while, or the final true
MillerRabinRound ==
    /\ op = "gen_secure_prime" /\ frame.pc = "round"
    /\ IF frame.i = MR_ROUNDS
       THEN /\ frame' = Frame("return", frame.n, 0, 0, 0, 0)
            /\ ret' = Returns(frame.n)
       ELSE /\ \E a \in 2..(frame.n - 2) :
                LET x == modpow(a, frame.d, frame.n)
                IN  frame' = IF x = 1 \/ x = frame.n - 1
                             THEN [frame EXCEPT !.i = frame.i + 1]
                             ELSE [frame EXCEPT !.pc = "square", !.x = x]
            /\ UNCHANGED ret
    /\ UNCHANGED <<key, op, arg, cipher>>

\* one test of while r != zero() { ... }, and return false after it
MillerRabinSquare ==
    /\ op = "gen_secure_prime" /\ frame.pc = "square"
    /\ frame' =
        IF frame.r = 0 THEN Frame("is_prime", frame.n + 1, 0, 0, 0, 0)
        ELSE LET x == (frame.x * frame.x) % frame.n
             IN  IF x = frame.n - 1
                 THEN [frame EXCEPT !.pc = "round", !.i = frame.i + 1, !.x = 0]
                 ELSE [frame EXCEPT !.x = x, !.r = frame.r - 1]
    /\ UNCHANGED <<key, op, arg, ret, cipher>>

NextPrime ==
    \/ GenSecurePrime \/ QuickPrimeCheck \/ MillerRabinEnter
    \/ MillerRabinSplit \/ MillerRabinRound \/ MillerRabinSquare

\* the function runs on: a step that can be taken is taken
SpecPrime == Init /\ [][NextPrime]_vars /\ WF_vars(NextPrime)

\* C15 (as claimed): gen_secure_prime returns for every first candidate, 0
\* and 1 included, and every sequence of bases; every call of is_prime
\* inside it returns.
C15_GenSecurePrimeReturns ==
    (op = "gen_secure_prime") ~> (op = "gen_secure_prime" /\ frame.pc = "return")

(***************************************************************************)
(* chacha.rs.  A u32 is the pair <<high 16 bits, low 16 bits>>, and the    *)
(* array [u32; 16] a sequence indexed from 1.                              *)
(***************************************************************************)
U32(n) == <<(n \div 65536) % 65536, n % 65536>>

\* u32::wrapping_add
wrapping_add(a, b) ==
    LET lo == a[2] + b[2]
    IN  <<(a[1] + b[1] + (lo \div 65536)) % 65536, lo % 65536>>

\* bitwise exclusive or of two 16-bit halves
RECURSIVE xor16(_, _)
xor16(a, b) ==
    IF a = 0 THEN b
    ELSE IF b = 0 THEN a
    ELSE 2 * xor16(a \div 2, b \div 2) + ((a + b) % 2)

\* the ^ of two u32
xor(a, b) == <<xor16(a[1], b[1]), xor16(a[2], b[2])>>

\* u32::rotate_left for 0 <= k < 32
rotate_left(a, k) ==
    LET h == IF k >= 16 THEN a[2] ELSE a[1]
        l == IF k >= 16 THEN a[1] ELSE a[2]
        j == k % 16
    IN  <<((h * 2^j) % 65536) + (l \div 2^(16 - j)),
          ((l * 2^j) % 65536) + (h \div 2^(16 - j))>>

\* qr: the new values of a, b, c, d
qr(a, b, c, d) ==
    LET a1 == wrapping_add(a, b)
        d1 == rotate_left(xor(d, a1), 16)
        c1 == wrapping_add(c, d1)
        b1 == rotate_left(xor(b, c1), 12)
        a2 == wrapping_add(a1, b1)
        d2 == rotate_left(xor(d1, a2), 8)
        c2 == wrapping_add(c1, d2)
        b2 == rotate_left(xor(b1, c2), 7)
    IN  <<a2, b2, c2, d2>>

\* qr on the elements of s at the (0-based) indices ia, ib, ic, id
qr_at(s, ia, ib, ic, id) ==
    LET q == qr(s[ia + 1], s[ib + 1], s[ic + 1], s[id + 1])
    IN  [s EXCEPT ![ia + 1] = q[1], ![ib + 1] = q[2],
                  ![ic + 1] = q[3], ![id + 1] = q[4]]

qr_diag(s, i) ==
    qr_at(s, i, 4 + ((i + 1) % 4), 8 + ((i + 2) % 4), 12 + ((i + 3) % 4))

qr_col(s, i) == qr_at(s, i, 4 + i, 8 + i, 12 + i)

\* qr_col(s, i); ...; qr_col(s, 3)
RECURSIVE qr_cols(_, _)
qr_cols(s, i) == IF i = 4 THEN s ELSE qr_cols(qr_col(s, i), i + 1)

\* qr_diag(s, i); ...; qr_diag(s, 3)
RECURSIVE qr_diags(_, _)
qr_diags(s, i) == IF i = 4 THEN s ELSE qr_diags(qr_diag(s, i), i + 1)

chacha_odd_round(s) == qr_cols(s, 0)

chacha_even_round(s) == qr_diags(s, 0)

\* "expa", "nd 3", "2-by", "te k" read as little-endian u32
CHACHA_CONST ==
    <<<<24944, 30821>>, <<13088, 25710>>, <<31074, 11570>>, <<27424, 25972>>>>

\* for _ in 0..rounds / 2 { chacha_odd_round; chacha_even_round }, on an
\* array of 16 words
RECURSIVE double_rounds(_, _)
double_rounds(s, n) ==
    IF n = 0 \/ Len(s) # 16 THEN s
    ELSE double_rounds(chacha_even_round(chacha_odd_round(s)), n - 1)

\* the two u32 of the u64 block counter, low half first (to_ne_bytes on a
\* little-endian target); pos < 2^31 in the model
pos_words(pos) == <<U32(pos), U32(0)>>

\* chacha: the 16 words written to out
chacha(k, pos, nonce, rounds) ==
    LET state == CHACHA_CONST \o k \o pos_words(pos) \o nonce
        mixed == double_rounds(state, rounds \div 2)
    IN  [i \in 1..16 |-> wrapping_add(mixed[i], state[i])]

\* xchacha: the 16 words written to out
xchacha(k, pos, nonce, rounds) ==
    LET state == double_rounds(CHACHA_CONST \o k \o SubSeq(nonce, 1, 4),
                               rounds \div 2)
    IN  chacha(SubSeq(state, 1, 4) \o SubSeq(state, 13, 16), pos,
               SubSeq(nonce, 5, 6), rounds)

\* the values of the const parameter N the library names
ChaChaRounds == {8, 12, 20}

\* the arrays the callers pass: n words, all zero or counting from start
WordArrays(n) ==
    {[i \in 1..n |-> U32(0)], [i \in 1..n |-> U32(i)],
     [i \in 1..n |-> <<65535, 65535 - i>>]}

\* get32 is called at most MaxCalls times on one object
MaxCalls == 33

\* ChaCha::<N>::new
ChaChaNew ==
    /\ op = "init"
    /\ \E N \in ChaChaRounds, k \in WordArrays(8), nonce \in WordArrays(2) :
        /\ cipher' = [type |-> "ChaCha", N |-> N, key |-> k, nonce |-> nonce,
                      pos |-> 0, out_pos |-> 0, out |-> [i \in 1..16 |-> U32(0)]]
        /\ arg' = [N |-> N, key |-> k, nonce |-> nonce]
    /\ op' = "new"
    /\ ret' = None
    /\ UNCHANGED <<key, frame>>

\* XChaCha::<N>::new
XChaChaNew ==
    /\ op = "init"
    /\ \E N \in ChaChaRounds, k \in WordArrays(8), nonce \in WordArrays(6) :
        /\ cipher' = [type |-> "XChaCha", N |-> N, key |-> k, nonce |-> nonce,
                      pos |-> 0, out_pos |-> 0, out |-> [i \in 1..16 |-> U32(0)]]
        /\ arg' = [N |-> N, key |-> k, nonce |-> nonce]
    /\ op' = "new"
    /\ ret' = None
    /\ UNCHANGED <<key, frame>>

\* the call of get32 that follows new has index 0
NextCall == IF op = "new" THEN 0 ELSE arg.i + 1

\* ChaCha::<N>::get32
ChaChaGet32 ==
    /\ op \in {"new", "get32"} /\ cipher.type = "ChaCha"
    /\ NextCall < MaxCalls
    /\ IF cipher.out_pos < 16
       THEN /\ ret' = cipher.out[cipher.out_pos + 1]
            /\ UNCHANGED cipher
       ELSE LET out == chacha(cipher.key, cipher.pos, cipher.nonce, cipher.N)
            IN  /\ cipher' = [cipher EXCEPT !.out = out, !.out_pos = 1]
                /\ ret' = out[1]
    /\ op' = "get32"
    /\ arg' = [i |-> NextCall]
    /\ UNCHANGED <<key, frame>>

\* XChaCha::<N>::get32
XChaChaGet32 ==
    /\ op \in {"new", "get32"} /\ cipher.type = "XChaCha"
    /\ NextCall < MaxCalls
    /\ IF cipher.out_pos < 16
       THEN /\ ret' = cipher.out[cipher.out_pos + 1]
            /\ UNCHANGED cipher
       ELSE LET out == xchacha(cipher.key, cipher.pos, cipher.nonce, cipher.N)
            IN  /\ cipher' = [cipher EXCEPT !.out = out, !.out_pos = 1]
                /\ ret' = out[1]
    /\ op' = "get32"
    /\ arg' = [i |-> NextCall]
    /\ UNCHANGED <<key, frame>>

NextChaCha == ChaChaNew \/ XChaChaNew \/ ChaChaGet32 \/ XChaChaGet32

SpecChaCha == Init /\ [][NextChaCha]_vars

\* the block of the key stream for the block counter pos
KeyStreamBlock(c, pos) ==
    IF c.type = "ChaCha" THEN chacha(c.key, pos, c.nonce, c.N)
    ELSE xchacha(c.key, pos, c.nonce, c.N)

\* C17 (as claimed): the call of get32 with index i after new (i = 0, 1, ...)
\* returns word i mod 16 of the block for the counter floor(i / 16), and
\* leaves the buffer position behind that word and the block counter
\* advanced by one per 16 words.
C17_KeyStream ==
    op = "get32" =>
        /\ ret = KeyStreamBlock(cipher, arg.i \div 16)[(arg.i % 16) + 1]
        /\ cipher.out_pos = (arg.i % 16) + 1
        /\ cipher.pos \in {arg.i \div 16, arg.i \div 16 + 1}

(***************************************************************************)
(* The whole library                                                       *)
(***************************************************************************)
Next == NextArith \/ NextRsa \/ NextGroup \/ NextSig \/ NextPrime \/ NextChaCha

Spec == Init /\ [][Next]_vars

=============================================================================
